---- MODULE Spec2Model ----
(***************************************************************************)
(* PDF conversion plugin (indico_conversion/conversion.py):                *)
(*   - submit_attachment: the celery task that posts an attachment to the  *)
(*     conversion service and retries on failure;                          *)
(*   - RHConversionFinished: the callback of the conversion service;       *)
(*   - RHConversionCheck: the polling endpoint.                            *)
(***************************************************************************)
EXTENDS Integers, Sequences, FiniteSets, Bags, TLC

\* ---------------------------------------------------------------- constants
MAX_TRIES == 20
DELAYS == <<30, 60, 120, 300, 600, 1800, 3600, 3600, 7200>>
MaintenanceCountdown == 900
DebugDelay == 1
\* max_retries=None of the task decorator: no limit
NoMaxRetries == -1
Salt == "pdf-conversion"
OtherSalt == "other-feature"
None == "None"

\* ------------------------------------------------------------------- bounds
NumAttachments == 2
MaxPauses == 1
MaxArtifacts == 2
MaxQueryLen == 2

MaxTokenId == 12

AttachmentIds == 1..NumAttachments

\* ------------------------------------------------- str(attachment.id) / int(id_)
RECURSIVE str(_)
str(n) == IF n < 10 THEN <<n>> ELSE str(n \div 10) \o <<n % 10>>

RECURSIVE int(_)
int(s) == IF Len(s) = 0 THEN 0 ELSE 10 * int(SubSeq(s, 1, Len(s) - 1)) + s[Len(s)]

\* ------------------------------------------------------------ pdf_state_cache
cache_get(c, key) == IF key \in DOMAIN c THEN c[key] ELSE None

cache_set(c, key, value) == [k \in (DOMAIN c) \cup {key} |-> IF k = key THEN value ELSE c[k]]

\* variant: only a pending entry is deleted
cache_delete_PendingOnly(c, key) ==
    IF key \in DOMAIN c /\ c[key] = "pending" THEN [k \in (DOMAIN c) \ {key} |-> c[k]] ELSE c

\* variant: the delete does not reach the cache
cache_delete_Kept(c, key) == c

cache_delete(c, key) == [k \in (DOMAIN c) \ {key} |-> c[k]]

\* ------------------------------------------------- secure_serializer (signing)
\* signature of a payload under a namespace (keyed MAC: distinct for distinct input)
SaltCode(salt) == IF salt = Salt THEN 1 ELSE 0

Signature(value, salt) == 2 * value + SaltCode(salt)

\* secure_serializer.dumps({'attachment_id': id}, salt=...): payload and signature
\* variant: the token is signed under a namespace other than the one asked for
dumps_WrongSalt(attachment_id, salt) ==
    <<attachment_id, Signature(attachment_id, IF salt = Salt THEN OtherSalt ELSE Salt)>>

dumps(attachment_id, salt) == <<attachment_id, Signature(attachment_id, salt)>>

\* variant: the namespace is not part of what is verified
loads_AnySalt(token, salt) ==
    IF Len(token) = 2 /\ token[2] \in {Signature(token[1], Salt), Signature(token[1], OtherSalt)}
    THEN [ok |-> TRUE, attachment_id |-> token[1]]
    ELSE [ok |-> FALSE, attachment_id |-> 0]

\* secure_serializer.loads(token, salt=...): the payload, or BadData
loads(token, salt) ==
    IF Len(token) = 2 /\ token[2] = Signature(token[1], salt)
    THEN [ok |-> TRUE, attachment_id |-> token[1]]
    ELSE [ok |-> FALSE, attachment_id |-> 0]

\* tokens a callback may carry: issued ones, ones signed under another namespace,
\* issued ones with one character changed, and the empty string
TokenChars == 2 * NumAttachments + 2

Corrupted(token) ==
    {[token EXCEPT ![i] = (token[i] + 1) % TokenChars] : i \in 1..Len(token)}

\* the attachments the database holds at the start: the only ones a token is
\* ever issued for
InitialIds == {1}

IssuedTokens == {dumps(a, Salt) : a \in InitialIds}

CallbackTokens ==
    IssuedTokens \cup {dumps(a, OtherSalt) : a \in InitialIds}
        \cup UNION {Corrupted(t) : t \in IssuedTokens} \cup {<<>>}

CallbackStatuses == {"0", "1"}

\* ------------------------------------------------------------- backoff policy
\* variant: the schedule indexed by the number of the attempt that failed
DelayFor_OneBased(retries, debug) ==
    IF debug THEN DebugDelay
    ELSE IF retries >= 1 /\ retries <= Len(DELAYS) THEN DELAYS[retries]
    ELSE DELAYS[Len(DELAYS)]

\* DELAYS[task.request.retries] if not config.DEBUG else 1, DELAYS[-1] on IndexError
\* (Python indexes from 0, never negative here)
DelayFor(retries, debug) ==
    IF debug THEN DebugDelay
    ELSE IF retries + 1 <= Len(DELAYS) THEN DELAYS[retries + 1]
    ELSE DELAYS[Len(DELAYS)]

\* variant: the limit is compared with the retries of the failed execution
TaskRetry_Late(retries, max_retries) ==
    IF max_retries # NoMaxRetries /\ retries > max_retries
    THEN [exc |-> "MaxRetriesExceededError", retries |-> retries + 1]
    ELSE [exc |-> "Retry", retries |-> retries + 1]

\* celery's Task.retry(countdown=..., max_retries=...): the re-sent task carries
\* request.retries + 1; MaxRetriesExceededError when that exceeds max_retries
TaskRetry(retries, max_retries) ==
    IF max_retries # NoMaxRetries /\ retries + 1 > max_retries
    THEN [exc |-> "MaxRetriesExceededError", retries |-> retries + 1]
    ELSE [exc |-> "Retry", retries |-> retries + 1]

\* ------------------------------------------------- response of requests.post
\* 300 is returned as it is (no redirect is followed) and may carry a body
HttpStatuses == {200, 300, 500}

\* no response: the connection failed, or no request was made
NoResponse == [transport |-> FALSE, status |-> 0, ok_in_text |-> FALSE]

Responses ==
    {NoResponse} \cup
    [transport : {TRUE}, status : HttpStatuses, ok_in_text : BOOLEAN]

\* requests.post raising, raise_for_status() raising (4xx, 5xx), 'ok' not in text
RequestException(resp) ==
    \/ ~resp.transport
    \/ (resp.status >= 400 /\ resp.status < 600)
    \/ ~resp.ok_in_text

\* -------------------------------------------------------------------- state
VARIABLES
    db,           \* Attachment rows: id -> [exists, is_deleted, folder_deleted]
    maintenance,  \* ConversionPlugin.settings 'maintenance'
    queue,        \* scheduled executions of submit_attachment: a bag of messages
    jobState,     \* id -> NotStarted, AwaitingRetry, Succeeded, GivenUp
    requests,     \* id -> number of posts sent to the conversion service
    pauses,       \* id -> number of maintenance pauses taken
    cache,        \* pdf_state_cache: str(id) -> pending, finished
    artifacts,    \* id -> number of pdf attachments created from it
    deliveries,   \* id -> number of callbacks received for it that were due an artifact
    last          \* the operation that led to this state, with its inputs and result

vars == <<db, maintenance, queue, jobState, requests, pauses, cache, artifacts,
          deliveries, last>>

LiveRow == [exists |-> TRUE, is_deleted |-> FALSE, folder_deleted |-> FALSE]
NoRow == [exists |-> FALSE, is_deleted |-> FALSE, folder_deleted |-> FALSE]

\* a database holding the attachments of `ids`, nothing submitted yet
InitWith(ids) ==
    /\ db = [a \in AttachmentIds |-> IF a \in ids THEN LiveRow ELSE NoRow]
    /\ maintenance \in BOOLEAN
    /\ queue = EmptyBag
    /\ jobState = [a \in AttachmentIds |-> "NotStarted"]
    /\ requests = [a \in AttachmentIds |-> 0]
    /\ pauses = [a \in AttachmentIds |-> 0]
    /\ cache = <<>>
    /\ artifacts = [a \in AttachmentIds |-> 0]
    /\ deliveries = [a \in AttachmentIds |-> 0]
    /\ last = [op |-> "init"]

Init == InitWith(InitialIds)

\* ------------------------------------------------------------ job submission
\* the plugin queues submit_attachment for a new attachment and marks it pending
Enqueue(a) ==
    /\ db[a].exists /\ ~db[a].is_deleted /\ ~db[a].folder_deleted
    /\ jobState[a] = "NotStarted"
    /\ queue' = queue (+) SetToBag({[attachment |-> a, retries |-> 0]})
    /\ jobState' = [jobState EXCEPT ![a] = "AwaitingRetry"]
    /\ cache' = cache_set(cache, str(a), "pending")
    /\ last' = [op |-> "enqueue", attachment |-> a]
    /\ UNCHANGED <<db, maintenance, requests, pauses, artifacts, deliveries>>

\* the path one execution of submit_attachment takes, for a message that
\* carries `retries`
SubmitKind(retries, in_maintenance, resp) ==
    IF in_maintenance THEN "pause"
    ELSE IF RequestException(resp)
    THEN IF TaskRetry(retries, MAX_TRIES - 1).exc = "MaxRetriesExceededError"
         THEN "giveup" ELSE "retry"
    ELSE "ok"

\* variant: the task is re-sent after an accepted submission too
Resent_AfterSuccess(kind) == kind \in {"pause", "retry", "ok"}

\* variant: the maintenance pause returns without re-sending the task
Resent_NoPause(kind) == kind \in {"retry"}

\* task.retry re-sends the task unless it raises MaxRetriesExceededError
Resent(kind) == kind \in {"pause", "retry"}

\* the state machine of the job: the state each path leaves it in
StateAfter(kind) ==
    CASE kind = "ok" -> "Succeeded"
      [] kind = "giveup" -> "GivenUp"
      [] OTHER -> "AwaitingRetry"

\* variant: the cache entry is dropped after an accepted submission too
SubmitResult_DeleteOnSuccess(retries, in_maintenance, resp, debug) ==
    LET kind == SubmitKind(retries, in_maintenance, resp) IN
    [kind |-> kind,
     posted |-> ~in_maintenance,
     requeue |-> Resent(kind),
     retries |-> CASE kind = "pause" -> TaskRetry(retries, NoMaxRetries).retries
                   [] kind = "ok" -> retries
                   [] OTHER -> TaskRetry(retries, MAX_TRIES - 1).retries,
     countdown |-> CASE kind = "pause" -> MaintenanceCountdown
                     [] kind = "retry" -> DelayFor(retries, debug)
                     [] OTHER -> 0,
     debug |-> debug /\ kind \in {"retry", "giveup"},
     state |-> StateAfter(kind),
     delete |-> kind \in {"giveup", "ok"}]

\* what one execution of submit_attachment does; config.DEBUG is read on the
\* failure path only
SubmitResult(retries, in_maintenance, resp, debug) ==
    LET kind == SubmitKind(retries, in_maintenance, resp) IN
    [kind |-> kind,
     posted |-> ~in_maintenance,
     requeue |-> Resent(kind),
     retries |-> CASE kind = "pause" -> TaskRetry(retries, NoMaxRetries).retries
                   [] kind = "ok" -> retries
                   [] OTHER -> TaskRetry(retries, MAX_TRIES - 1).retries,
     countdown |-> CASE kind = "pause" -> MaintenanceCountdown
                     [] kind = "retry" -> DelayFor(retries, debug)
                     [] OTHER -> 0,
     debug |-> debug /\ kind \in {"retry", "giveup"},
     state |-> StateAfter(kind),
     delete |-> kind = "giveup"]

\* variant: the retry is sent by the handler and once more by the task runner
ResentMessages_Twice(a, res) ==
    IF res.requeue
    THEN SetToBag({[attachment |-> a, retries |-> res.retries]})
            (+) SetToBag({[attachment |-> a, retries |-> res.retries]})
    ELSE EmptyBag

\* the messages task.retry sends: one, or none
ResentMessages(a, res) ==
    IF res.requeue
    THEN SetToBag({[attachment |-> a, retries |-> res.retries]})
    ELSE EmptyBag

\* one execution of submit_attachment for the queued message m
SubmitAttachment(m, resp, debug) ==
    LET a == m.attachment
        res == SubmitResult(m.retries, maintenance, resp, debug)
    IN  /\ m \in BagToSet(queue)
        /\ res.kind = "pause" => pauses[a] < MaxPauses
        /\ queue' = (queue (-) SetToBag({m})) (+) ResentMessages(a, res)
        /\ requests' = [requests EXCEPT ![a] = IF res.posted THEN @ + 1 ELSE @]
        /\ pauses' = [pauses EXCEPT ![a] = IF res.kind = "pause" THEN @ + 1 ELSE @]
        /\ jobState' = [jobState EXCEPT ![a] = res.state]
        /\ cache' = IF res.delete THEN cache_delete(cache, str(a)) ELSE cache
        /\ last' = [op |-> "submit", attachment |-> a, retries |-> m.retries,
                    kind |-> res.kind, countdown |-> res.countdown, debug |-> res.debug,
                    deleted |-> IF res.delete THEN cache_get(cache, str(a)) ELSE None]
        /\ UNCHANGED <<db, maintenance, artifacts, deliveries>>

\* an administrator switches the maintenance setting
SetMaintenance(value) ==
    /\ maintenance # value
    /\ maintenance' = value
    /\ last' = [op |-> "settings"]
    /\ UNCHANGED <<db, queue, jobState, requests, pauses, cache, artifacts, deliveries>>

\* --------------------------------------------------------- callback handler
\* variant: only a missing row counts as gone
Gone_RowOnly(id) ==
    \/ id \notin AttachmentIds
    \/ ~db[id].exists

Gone(id) ==
    \/ id \notin AttachmentIds
    \/ ~db[id].exists
    \/ db[id].is_deleted
    \/ db[id].folder_deleted

\* variant: the status is checked before the attachment is looked at
CallbackOutcome_StatusFirst(token, status) ==
    LET payload == loads(token, Salt) IN
    IF ~payload.ok THEN "BadData"
    ELSE IF status # "1" THEN "invalid_status"
    ELSE IF Gone(payload.attachment_id) THEN "deleted"
    ELSE "apply"

\* variant: the status is not checked
CallbackOutcome_AnyStatus(token, status) ==
    LET payload == loads(token, Salt) IN
    IF ~payload.ok THEN "BadData"
    ELSE IF Gone(payload.attachment_id) THEN "deleted"
    ELSE "apply"

\* variant: a callback for an attachment already marked finished is acknowledged
\* without being applied again
CallbackOutcome_Once(token, status) ==
    LET payload == loads(token, Salt) IN
    IF ~payload.ok THEN "BadData"
    ELSE IF Gone(payload.attachment_id) THEN "deleted"
    ELSE IF status # "1" THEN "invalid_status"
    ELSE IF cache_get(cache, str(payload.attachment_id)) = "finished" THEN "deleted"
    ELSE "apply"

\* the branch RHConversionFinished._process takes
CallbackOutcome(token, status) ==
    LET payload == loads(token, Salt) IN
    IF ~payload.ok THEN "BadData"
    ELSE IF Gone(payload.attachment_id) THEN "deleted"
    ELSE IF status # "1" THEN "invalid_status"
    ELSE "apply"

\* jsonify(success=...) of each branch
CallbackSuccess(outcome) == outcome \in {"deleted", "apply"}

\* the request carries a token submit_attachment issued and status "1", and the
\* attachment it names is there and neither it nor its folder is deleted
ValidDelivery(token, status) ==
    /\ token \in IssuedTokens
    /\ status = "1"
    /\ token[1] \in AttachmentIds
    /\ db[token[1]] = LiveRow

RHConversionFinished(token, status) ==
    LET outcome == CallbackOutcome(token, status)
        id == loads(token, Salt).attachment_id
    IN  /\ IF outcome = "apply"
           THEN /\ artifacts[id] < MaxArtifacts
                /\ artifacts' = [artifacts EXCEPT ![id] = @ + 1]
                /\ cache' = cache_set(cache, str(id), "finished")
           ELSE UNCHANGED <<artifacts, cache>>
        /\ deliveries' = IF ValidDelivery(token, status)
                         THEN [deliveries EXCEPT ![token[1]] = @ + 1]
                         ELSE deliveries
        /\ last' = [op |-> "callback", token |-> token, status |-> status,
                    success |-> CallbackSuccess(outcome)]
        /\ UNCHANGED <<db, maintenance, queue, jobState, requests, pauses>>

\* timeout=timedelta(minutes=15) of the finished entry
Expire(a) ==
    /\ cache_get(cache, str(a)) = "finished"
    /\ cache' = cache_delete(cache, str(a))
    /\ last' = [op |-> "expire", attachment |-> a]
    /\ UNCHANGED <<db, maintenance, queue, jobState, requests, pauses, artifacts, deliveries>>

\* ------------------------------------------------ the attachment is removed
DeleteAttachment(a) ==
    /\ db[a].exists /\ ~db[a].is_deleted
    /\ db' = [db EXCEPT ![a].is_deleted = TRUE]
    /\ last' = [op |-> "delete", attachment |-> a]
    /\ UNCHANGED <<maintenance, queue, jobState, requests, pauses, cache, artifacts, deliveries>>

DeleteFolder(a) ==
    /\ db[a].exists /\ ~db[a].folder_deleted
    /\ db' = [db EXCEPT ![a].folder_deleted = TRUE]
    /\ last' = [op |-> "delete", attachment |-> a]
    /\ UNCHANGED <<maintenance, queue, jobState, requests, pauses, cache, artifacts, deliveries>>

Purge(a) ==
    /\ db[a].exists
    /\ db' = [db EXCEPT ![a] = NoRow]
    /\ last' = [op |-> "delete", attachment |-> a]
    /\ UNCHANGED <<maintenance, queue, jobState, requests, pauses, cache, artifacts, deliveries>>

\* ------------------------------------------------------------- status query
Range(seq) == {seq[i] : i \in DOMAIN seq}

\* keys of {int(id_): ... for id_ in ids}, in insertion order
RECURSIVE ResultKeys(_)
ResultKeys(ids) ==
    IF ids = <<>> THEN <<>>
    ELSE LET front == ResultKeys(SubSeq(ids, 1, Len(ids) - 1))
             key == int(ids[Len(ids)])
         IN  IF key \in Range(front) THEN front ELSE Append(front, key)

\* {int(id_): pdf_state_cache.get(id_) for id_ in ids}: a later id_ overwrites
Results(c, ids) ==
    [n \in {int(ids[i]) : i \in DOMAIN ids} |->
        LET i == CHOOSE i \in DOMAIN ids :
                    /\ int(ids[i]) = n
                    /\ \A j \in DOMAIN ids : j > i => int(ids[j]) # n
        IN  cache_get(c, ids[i])]

\* variant: containers are built without asking folder.can_view
QueryResponse_NoAcl(c, d, ids, viewable) ==
    LET results == Results(c, ids)
        finished == SelectSeq(ResultKeys(ids), LAMBDA n : results[n] = "finished")
        pending == SelectSeq(ResultKeys(ids), LAMBDA n : results[n] = "pending")
    IN  [finished |-> finished,
         pending |-> pending,
         containers |-> {n \in Range(finished) : n \in AttachmentIds /\ d[n].exists}]

\* the response of RHConversionCheck._process for the session user, who can view
\* the folders of the attachments in `viewable`
QueryResponse(c, d, ids, viewable) ==
    LET results == Results(c, ids)
        finished == SelectSeq(ResultKeys(ids), LAMBDA n : results[n] = "finished")
        pending == SelectSeq(ResultKeys(ids), LAMBDA n : results[n] = "pending")
    IN  [finished |-> finished,
         pending |-> pending,
         containers |-> {n \in Range(finished) :
                            n \in AttachmentIds /\ d[n].exists /\ n \in viewable}]

\* the handler answers the request that arrived
RHConversionCheck ==
    /\ last.op = "request"
    /\ last' = [op |-> "check", ids |-> last.ids, viewable |-> last.viewable,
                response |-> QueryResponse(cache, db, last.ids, last.viewable)]
    /\ UNCHANGED <<db, maintenance, queue, jobState, requests, pauses, cache, artifacts, deliveries>>

\* request.args.getlist('a'): decimal ids, "01" among them
QueryIds == {str(a) : a \in AttachmentIds} \cup {<<0>> \o str(1)}

QueryLists == UNION {[1..n -> QueryIds] : n \in 0..MaxQueryLen}

Next ==
    \/ \E a \in AttachmentIds : Enqueue(a)
    \/ \E m \in BagToSet(queue), resp \in Responses, debug \in BOOLEAN :
          SubmitAttachment(m, resp, debug)
    \/ \E value \in BOOLEAN : SetMaintenance(value)
    \/ \E token \in CallbackTokens, status \in CallbackStatuses :
          RHConversionFinished(token, status)
    \/ \E a \in AttachmentIds : Expire(a)
    \/ \E a \in AttachmentIds : DeleteAttachment(a)
    \/ \E a \in AttachmentIds : DeleteFolder(a)
    \/ \E a \in AttachmentIds : Purge(a)

Spec == Init /\ [][Next]_vars

\* the worker runs what is scheduled for attachment a
Execute(a) ==
    \E m \in BagToSet(queue), resp \in Responses, debug \in BOOLEAN :
        m.attachment = a /\ SubmitAttachment(m, resp, debug)

\* submission and callbacks, with a worker that runs every scheduled execution
\* in the end; removals and expiry touch neither the queue nor the job
NextLive ==
    \/ \E a \in AttachmentIds : Enqueue(a)
    \/ \E a \in AttachmentIds : Execute(a)
    \/ \E value \in BOOLEAN : SetMaintenance(value)
    \/ \E token \in IssuedTokens, status \in CallbackStatuses :
          RHConversionFinished(token, status)

SpecLive == Init /\ [][NextLive]_vars /\ \A a \in AttachmentIds : WF_vars(Execute(a))

\* --------------------------------------------------- the token on its own
\* an attachment id is about to be put into a payload
InitCodec ==
    /\ db = [a \in AttachmentIds |-> LiveRow]
    /\ maintenance = FALSE
    /\ queue = EmptyBag
    /\ jobState = [a \in AttachmentIds |-> "AwaitingRetry"]
    /\ requests = [a \in AttachmentIds |-> 0]
    /\ pauses = [a \in AttachmentIds |-> 0]
    /\ cache = <<>>
    /\ artifacts = [a \in AttachmentIds |-> 0]
    /\ deliveries = [a \in AttachmentIds |-> 0]
    /\ last \in [op : {"payload"}, attachment_id : 1..MaxTokenId]

\* secure_serializer.dumps(payload, salt=...) as submit_attachment calls it,
\* or as another user of the serializer does under its own salt
Sign(salt) ==
    /\ last.op = "payload"
    /\ last' = [op |-> "token", attachment_id |-> last.attachment_id, salt |-> salt,
                token |-> dumps(last.attachment_id, salt)]
    /\ UNCHANGED <<db, maintenance, queue, jobState, requests, pauses, cache,
                   artifacts, deliveries>>

\* the callback arrives with `token` and the handler loads it
Load(token) ==
    /\ last.op = "token"
    /\ last' = [op |-> "loaded", attachment_id |-> last.attachment_id,
                salt |-> last.salt, sent |-> last.token, token |-> token,
                payload |-> loads(token, Salt)]
    /\ UNCHANGED <<db, maintenance, queue, jobState, requests, pauses, cache,
                   artifacts, deliveries>>

NextCodec ==
    \/ \E salt \in {Salt, OtherSalt} : Sign(salt)
    \/ /\ last.op = "token"
       /\ \E token \in {last.token} \cup Corrupted(last.token) : Load(token)

SpecCodec == InitCodec /\ [][NextCodec]_vars

\* ------------------------------------------- the polling endpoint on its own
Rows == {LiveRow, NoRow}

CacheStates ==
    UNION {[{str(a) : a \in S} -> {"pending", "finished"}] : S \in SUBSET AttachmentIds}

\* every attachment was submitted and accepted by the service at the first attempt;
\* callbacks, expiry and removals have happened since, and a poll has arrived
InitQuery ==
    /\ db \in [AttachmentIds -> Rows]
    /\ maintenance = FALSE
    /\ queue = EmptyBag
    /\ jobState = [a \in AttachmentIds |-> "Succeeded"]
    /\ requests = [a \in AttachmentIds |-> 1]
    /\ pauses = [a \in AttachmentIds |-> 0]
    /\ cache \in CacheStates
    /\ artifacts = [a \in AttachmentIds |->
                        IF cache_get(cache, str(a)) = "finished" THEN 1 ELSE 0]
    /\ deliveries = artifacts
    /\ last \in [op : {"request"}, ids : QueryLists, viewable : SUBSET AttachmentIds]

NextQuery == RHConversionCheck

SpecQuery == InitQuery /\ [][NextQuery]_vars

\* =================================================================== claims
NoMessage(a) == \A m \in BagToSet(queue) : m.attachment # a

\* the schedule as the specification lists it
Schedule == <<30, 60, 120, 300, 600, 1800, 3600, 3600, 7200>>

\* C1: a job that gives up has made exactly MAX_TRIES posts to the service; at
\* that point its cache entry is absent and no retry is scheduled.
C1_GiveUpAfterMaxTries ==
    (last.op = "submit" /\ last.kind = "giveup") =>
        /\ requests[last.attachment] = MAX_TRIES
        /\ jobState[last.attachment] = "GivenUp"
        /\ cache_get(cache, str(last.attachment)) = None
        /\ NoMessage(last.attachment)

\* C2: a maintenance pause re-schedules the task after 900 s and leaves the
\* attempt counter where it was: the re-scheduled task carries the retries the
\* paused one carried, so the budget and the backoff position are untouched.
C2_MaintenancePauseNotCounted ==
    (last.op = "submit" /\ last.kind = "pause") =>
        /\ last.countdown = 900
        /\ \A m \in BagToSet(queue) :
              m.attachment = last.attachment => m.retries = last.retries

\* C3: once a submission has succeeded, no task of the job is scheduled and the
\* number of posts sent for it never changes again.
C3_NoAttemptAfterSuccess ==
    [][\A a \in AttachmentIds :
          /\ jobState'[a] = "Succeeded" => \A m \in BagToSet(queue') : m.attachment # a
          /\ jobState[a] = "Succeeded" =>
                (jobState'[a] = "Succeeded" /\ requests'[a] = requests[a])]_vars

C3_Witness ==
    /\ jobState[1] = "Succeeded"
    /\ requests[1] = 3
    /\ last.op = "callback"

\* C4: outside debug mode a failed attempt made with attempt count a is retried
\* after Schedule[a] for a in 0..8 (30 s for a = 0) and after 7200 s for a >= 9.
C4_DelaySchedule ==
    (last.op = "submit" /\ last.kind = "retry" /\ ~last.debug) =>
        /\ last.retries \in 0..8 => last.countdown = Schedule[last.retries + 1]
        /\ last.retries = 0 => last.countdown = 30
        /\ last.retries >= 9 => last.countdown = 7200

C4_Witness ==
    /\ last.op = "submit" /\ last.kind = "retry" /\ ~last.debug
    /\ last.retries = 12
    /\ last.countdown = 7200

\* C5: a callback whose token was not issued under the namespace of the feature
\* (another namespace, one character changed, empty) is answered with a
\* failure and changes nothing, whatever its status.
C5_InvalidTokenNoMutation ==
    [][(last'.op = "callback" /\ last'.token \notin IssuedTokens) =>
          /\ last'.success = FALSE
          /\ cache' = cache
          /\ artifacts' = artifacts
          /\ UNCHANGED <<db, queue, jobState, requests, pauses, maintenance>>]_vars

C5_Witness ==
    /\ last.op = "callback"
    /\ last.token = dumps(1, OtherSalt)
    /\ last.status = "1"
    /\ last.success = FALSE
    /\ ~Gone(1)
    /\ cache_get(cache, str(1)) = "pending"
    /\ artifacts[1] = 0

\* C6: a callback with an issued token for an attachment that is gone, deleted
\* or in a deleted folder is answered with success, creates no pdf attachment
\* and leaves the cache alone, whatever its status.
C6_DeletedJobBenign ==
    [][(/\ last'.op = "callback"
        /\ last'.token \in IssuedTokens
        /\ Gone(last'.token[1])) =>
          /\ last'.success = TRUE
          /\ cache' = cache
          /\ artifacts' = artifacts]_vars

C6_Witness ==
    /\ last.op = "callback"
    /\ last.token = dumps(1, Salt)
    /\ last.status = "0"
    /\ last.success = TRUE
    /\ db[1].exists /\ ~db[1].is_deleted /\ db[1].folder_deleted
    /\ cache_get(cache, str(1)) = "pending"

\* C7: a callback with an issued token for a live attachment and a status
\* other than "1" is answered with a failure, creates no pdf attachment and
\* leaves the cache alone.
C7_BadStatusNoMutation ==
    [][(/\ last'.op = "callback"
        /\ last'.token \in IssuedTokens
        /\ ~Gone(last'.token[1])
        /\ last'.status # "1") =>
          /\ last'.success = FALSE
          /\ cache' = cache
          /\ artifacts' = artifacts]_vars

C7_Witness ==
    /\ last.op = "callback"
    /\ last.token = dumps(1, Salt)
    /\ last.status = "0"
    /\ last.success = FALSE
    /\ ~Gone(1)
    /\ cache_get(cache, str(1)) = "pending"

\* C8: every callback with an issued token, a live attachment and status "1"
\* creates one more pdf attachment and marks the cache entry finished, also
\* when the entry was finished already; nothing else changes the number of pdf
\* attachments, so n deliveries leave n of them.
C8_EveryDeliveryApplies ==
    [][LET delivery == /\ last'.op = "callback"
                       /\ last'.token \in IssuedTokens
                       /\ ~Gone(last'.token[1])
                       /\ last'.status = "1"
       IN  /\ delivery =>
                /\ last'.success = TRUE
                /\ artifacts' = [artifacts EXCEPT ![last'.token[1]] = @ + 1]
                /\ cache_get(cache', str(last'.token[1])) = "finished"
           /\ artifacts' # artifacts => delivery]_vars

C8_Witness ==
    /\ last.op = "callback"
    /\ last.token = dumps(1, Salt)
    /\ last.status = "1"
    /\ last.success = TRUE
    /\ artifacts[1] = 2
    /\ cache_get(cache, str(1)) = "finished"

\* C9: the response lists in finished exactly the queried ids whose cache entry
\* is finished, in pending exactly those whose entry is pending, and no id in
\* both.
C9_QueryClassifies ==
    last.op = "check" =>
        LET queried == {int(last.ids[i]) : i \in DOMAIN last.ids}
            r == last.response
        IN  /\ Range(r.finished) = {n \in queried : cache_get(cache, str(n)) = "finished"}
            /\ Range(r.pending) = {n \in queried : cache_get(cache, str(n)) = "pending"}
            /\ Range(r.finished) \cap Range(r.pending) = {}

\* C10: for a requester who may not view the folder of an attachment, the
\* response is the same whether the cache entry of that attachment is
\* finished, pending or absent.
C10_NoExistenceLeak ==
    last.op = "check" =>
        \A a \in AttachmentIds \ last.viewable :
            db[a].exists =>
                /\ QueryResponse(cache_set(cache, str(a), "finished"), db,
                                 last.ids, last.viewable) = last.response
                /\ QueryResponse(cache_set(cache, str(a), "pending"), db,
                                 last.ids, last.viewable) = last.response
                /\ QueryResponse(cache_delete(cache, str(a)), db,
                                 last.ids, last.viewable) = last.response

\* C11: the containers of a response hold an entry for an id only if the id is
\* in the finished list and the requester can view the folder of that
\* attachment; a finished id the requester cannot view stays in the finished
\* list, gets no entry, and the response is produced all the same.
C11_ContainersOnlyViewable ==
    last.op = "check" =>
        LET r == last.response
        IN  /\ \A n \in r.containers : n \in Range(r.finished) /\ n \in last.viewable
            /\ \A n \in Range(r.finished) \ last.viewable : n \notin r.containers

C11_Witness ==
    /\ last.op = "check"
    /\ Range(last.response.finished) = {1, 2}
    /\ last.viewable = {2}
    /\ db[1].exists
    /\ last.response.containers = {2}


\* what a poller learns about attachment a by asking for it, under each form
\* of its id
InFinished(a) ==
    \E q \in QueryIds :
        /\ int(q) = a
        /\ a \in Range(QueryResponse(cache, db, <<q>>, AttachmentIds).finished)

InPending(a) ==
    \E q \in QueryIds :
        /\ int(q) = a
        /\ a \in Range(QueryResponse(cache, db, <<q>>, AttachmentIds).pending)

\* C12 as stated: in every state in which a job is GivenUp, a status query
\* reports it neither finished nor pending.
C12_GivenUpStaysInvisible ==
    \A a \in AttachmentIds :
        jobState[a] = "GivenUp" => ~InFinished(a) /\ ~InPending(a)

\* C12: the step that gives a job up leaves it in neither list; a job that is
\* GivenUp is never reported pending again, and it turns up in finished only
\* by a callback for it with an issued token and status "1" that is applied
\* after the give-up.
C12_InvisibleUntilCallback ==
    [][\A a \in AttachmentIds :
          jobState'[a] = "GivenUp" =>
              /\ ~InPending(a)'
              /\ jobState[a] # "GivenUp" => ~InFinished(a)'
              /\ (jobState[a] = "GivenUp" /\ ~InFinished(a) /\ InFinished(a)') =>
                    /\ last'.op = "callback"
                    /\ last'.token = dumps(a, Salt)
                    /\ last'.status = "1"
                    /\ last'.success = TRUE]_vars

C12_Witness ==
    /\ jobState[1] = "GivenUp"
    /\ last.op = "callback"
    /\ last.success = TRUE
    /\ artifacts[1] = 1
    /\ InFinished(1)


\* the number of executions of submit_attachment scheduled for attachment a
Scheduled(a) ==
    BagCardinality([m \in {x \in BagToSet(queue) : x.attachment = a} |-> queue[m]])

\* C13: a job never has more than one execution of submit_attachment scheduled
\* or running, and none once it has succeeded or was given up; an execution
\* that fails leaves at most one retry behind, sent when its outcome is known.
C13_OneAttemptAtATime ==
    \A a \in AttachmentIds :
        /\ Scheduled(a) <= 1
        /\ jobState[a] \in {"NotStarted", "Succeeded", "GivenUp"} => Scheduled(a) = 0
        /\ (last.op = "submit" /\ last.attachment = a) =>
              Scheduled(a) = (IF last.kind \in {"retry", "pause"} THEN 1 ELSE 0)

C13_Witness ==
    /\ last.op = "submit"
    /\ last.attachment = 1
    /\ last.kind = "retry"
    /\ last.retries = 1
    /\ Scheduled(1) = 1
    /\ \A m \in BagToSet(queue) : m.retries = 2


\* C14: the cache entry of a job takes the value of the last write, whatever
\* the state of the job: a callback that is applied when the job is GivenUp
\* leaves the entry finished, and a give-up that finds the entry finished
\* deletes it, so that the entry is absent while a pdf attachment exists.
C14_LastWriteWins ==
    [][\A a \in AttachmentIds :
          /\ (/\ last'.op = "callback"
              /\ last'.token = dumps(a, Salt)
              /\ last'.status = "1"
              /\ last'.success = TRUE
              /\ ~Gone(a)
              /\ jobState[a] = "GivenUp") =>
                  /\ cache_get(cache', str(a)) = "finished"
                  /\ jobState'[a] = "GivenUp"
          /\ (/\ last'.op = "submit"
              /\ last'.attachment = a
              /\ last'.kind = "giveup"
              /\ cache_get(cache, str(a)) = "finished") =>
                  /\ cache_get(cache', str(a)) = None
                  /\ artifacts'[a] >= 1]_vars

C14_Witness ==
    /\ last.op = "submit"
    /\ last.kind = "giveup"
    /\ last.deleted = "finished"
    /\ cache_get(cache, str(last.attachment)) = None
    /\ artifacts[last.attachment] >= 1
    /\ ~InFinished(last.attachment)


C17_CacheOwnership ==
    [][/\ last'.op = "submit" =>
            /\ last'.kind # "giveup" => cache' = cache
            /\ last'.kind = "giveup" =>
                  /\ DOMAIN cache' = (DOMAIN cache) \ {str(last'.attachment)}
                  /\ \A k \in DOMAIN cache' : cache'[k] = cache[k]
       /\ last'.op = "callback" =>
            /\ \/ cache' = cache
               \/ \E a \in AttachmentIds :
                     /\ DOMAIN cache' = (DOMAIN cache) \cup {str(a)}
                     /\ cache'[str(a)] = "finished"
                     /\ \A k \in (DOMAIN cache) \ {str(a)} : cache'[k] = cache[k]
            /\ UNCHANGED <<queue, jobState, requests, pauses, maintenance>>]_vars

C17_Witness ==
    /\ last.op = "callback"
    /\ last.success = TRUE
    /\ cache_get(cache, str(1)) = "finished"
    /\ artifacts[1] = 1
    /\ jobState[1] = "AwaitingRetry"
    /\ requests[1] >= 2
    /\ Scheduled(1) = 1

\* the response is one the remote service gave with a success status (2xx) and
\* the marker in its body
Accepted(resp) ==
    /\ resp.transport
    /\ resp.status >= 200 /\ resp.status < 300
    /\ resp.ok_in_text

\* C18: an execution that posts takes the success path if and only if the
\* post got a response, the status of the response is a success status and
\* its body contains 'ok'; every other post takes the failure path, which is a
\* retry or the give-up.
C18_SuccessIffAccepted ==
    [][(last'.op = "submit" /\ last'.kind # "pause") =>
          \A m \in BagToSet(queue), resp \in Responses, debug \in BOOLEAN :
              SubmitAttachment(m, resp, debug) =>
                  /\ last'.kind = "ok" <=> Accepted(resp)
                  /\ last'.kind \in {"ok", "retry", "giveup"}
                  /\ last'.kind \in {"retry", "giveup"} <=> ~Accepted(resp)]_vars


\* C19: whatever the order of pauses, failures and retries, the posts sent
\* for a job never number more than MAX_TRIES; a step sends at most one post,
\* and only an execution of submit_attachment for that job outside maintenance
\* sends one.
C19_AtMostMaxTriesPosts ==
    [][\A a \in AttachmentIds :
          /\ requests'[a] <= MAX_TRIES
          /\ requests'[a] \in {requests[a], requests[a] + 1}
          /\ requests'[a] = requests[a] + 1 =>
                /\ last'.op = "submit"
                /\ last'.attachment = a
                /\ last'.kind # "pause"]_vars

C19_Witness ==
    /\ requests[1] = MAX_TRIES
    /\ jobState[1] = "GivenUp"
    /\ last.op = "submit"
    /\ last.kind = "giveup"
    /\ last.retries = MAX_TRIES - 1


\* C20: the pdf attachments made from an attachment number exactly the
\* callbacks received for it that carried an issued token and status "1"
\* while the attachment was there and neither it nor its folder was deleted;
\* a cache entry becomes finished only in the step of such a callback, the
\* step that makes the pdf attachment, and every such step leaves it finished.
C20_ArtifactsCountDeliveries ==
    [][\A a \in AttachmentIds :
          /\ artifacts'[a] = deliveries'[a]
          /\ (cache_get(cache', str(a)) = "finished" /\ cache_get(cache, str(a)) # "finished") =>
                /\ deliveries'[a] = deliveries[a] + 1
                /\ artifacts'[a] = artifacts[a] + 1
          /\ artifacts'[a] # artifacts[a] =>
                /\ artifacts'[a] = artifacts[a] + 1
                /\ cache_get(cache', str(a)) = "finished"]_vars

C20_Witness ==
    /\ last.op = "callback"
    /\ last.token = dumps(1, Salt)
    /\ last.status = "1"
    /\ last.success = TRUE
    /\ db[1].is_deleted
    /\ artifacts[1] = 2
    /\ deliveries[1] = 2

====
